---- MODULE Spec2Model ----
(***************************************************************************)
(* Identity-linking backend: token verification (utils/auth_helpers.py),   *)
(* the reconciliation routine upsert_user_from_token, the session factory  *)
(* (utils/db.py) and the /auth/login and /auth/signup routes               *)
(* (app/user_router.py), over the User table of utils/models.py.           *)
(*                                                                         *)
(* Modelling conventions                                                   *)
(*  - A Python str is a sequence of atoms; the scheme prefix "Bearer "     *)
(*    (with its space) is one atom, a blank is the atom " ".               *)
(*  - Python None is the string "None" for optional strings and NoTime (0) *)
(*    for optional datetimes; the clock starts above 0.                    *)
(*  - A dict is a function whose DOMAIN is the set of keys present.        *)
(*  - The store is the User table seen through the ORM: a set of rows, on  *)
(*    which the declared constraints (primary key, unique firebase_uid,    *)
(*    NOT NULL) are enforced at commit; a committed attribute is read back *)
(*    unchanged.  Application clock and store clock are one logical clock  *)
(*    that strictly increases with every reading.                          *)
(*  - Every await of the source is a separate atomic step, so calls        *)
(*    interleave at exactly the points where the event loop may switch.    *)
(*                                                                         *)
(* Specifications                                                          *)
(*  - Spec: the routes as written and direct calls of the routine.         *)
(*  - SpecFault: Spec with default_privacy=None and failing commits.       *)
(*  - SpecPostgres: direct calls on a store whose now() is the start time  *)
(*    of the transaction.                                                  *)
(*  - SpecScoped: the route bodies in a deployment where the async with    *)
(*    statement of the routes yields a session.                            *)
(*  - SpecProjection: User.public_dict on its own.                         *)
(***************************************************************************)
EXTENDS Integers, Sequences, FiniteSets, TLC

\* ---------------------------------------------------------------- bounds
\* number of requests / calls in one behaviour
MaxCalls == 2
\* number of requests / calls that may be in flight at the same time
MaxConc == 2

Calls == 1..MaxCalls

\* ------------------------------------------------------- Python helpers
None == "None"
NoTime == 0

\* truthiness of an Optional[str]: None and "" are falsy
Truthy(s) == s # None /\ s # ""

\* a or b on Optional[str]
PyOr(a, b) == IF Truthy(a) THEN a ELSE b

\* dict.get(k, default)
Get(d, k, default) == IF k \in DOMAIN d THEN d[k] ELSE default

\* status.HTTP_401_UNAUTHORIZED
HTTP_401_UNAUTHORIZED == 401

\* ----------------------------------------------------------- enumerations
UserStatus == {"active", "suspended", "deleted"}
PrivacyLevel == {"default", "strict", "custom"}
PrivacyLevel_DEFAULT == "default"

\* the compatibility helper of auth_helpers.py: UserStatus.ACTIVE
user_status_active == "active"

\* ------------------------------------------------------ credential strings
BEARER == "Bearer "
SP == " "

\* str.startswith(prefix) for a one-atom prefix
StartsWith(s, prefix) == Len(s) >= 1 /\ s[1] = prefix

\* positions of the separator atom in s
SepPositions(s, sep) == {i \in 1..Len(s) : s[i] = sep}

\* s.split(sep)[1]: the part between the first and the second separator.
\* Only applied to strings that contain the separator.
SplitSecond(s, sep) ==
    LET ps == SepPositions(s, sep)
        first == CHOOSE i \in ps : \A j \in ps : i <= j
        later == {i \in ps : i > first}
        stop == IF later = {} THEN Len(s) + 1
                ELSE CHOOSE i \in later : \A j \in later : i <= j
    IN  SubSeq(s, first + 1, stop - 1)

\* str.strip()
RECURSIVE LStrip(_)
LStrip(s) == IF s # <<>> /\ Head(s) = SP THEN LStrip(Tail(s)) ELSE s
RECURSIVE RStrip(_)
RStrip(s) == IF s # <<>> /\ s[Len(s)] = SP THEN RStrip(SubSeq(s, 1, Len(s) - 1)) ELSE s
Strip(s) == RStrip(LStrip(s))

\* ------------------------------------------- the external identity provider
\* claims records the provider issues for the ID tokens it accepts
ValidTokens ==
    [ tA |-> [uid |-> "u1", email |-> "a@x.com", email_verified |-> TRUE, name |-> "Ada"],
      tB |-> [uid |-> "u1", email |-> "b@x.com", email_verified |-> FALSE, displayName |-> "Bob"],
      tN |-> [uid |-> "u1", email |-> ""],
      tC |-> [uid |-> "u2", email |-> "a@x.com", name |-> ""] ]

\* why the provider rejects the other tokens
RejectCause(tok) ==
    IF tok = <<>> THEN "ValueError"
    ELSE IF tok = <<"tExpired">> THEN "ExpiredIdTokenError"
    ELSE IF tok = <<"tRevoked">> THEN "RevokedIdTokenError"
    ELSE "InvalidIdTokenError"

\* firebase_auth.verify_id_token: the decoded payload, or an exception
verify_id_token(tok) ==
    IF Len(tok) = 1 /\ tok[1] \in DOMAIN ValidTokens
    THEN [raised |-> FALSE, decoded |-> ValidTokens[tok[1]], exc |-> "none"]
    ELSE [raised |-> TRUE, decoded |-> [uid |-> "none"], exc |-> RejectCause(tok)]

Payloads == {ValidTokens[t] : t \in DOMAIN ValidTokens}

\* request headers the model sends
Headers ==
    { [Host |-> <<"h">>],
      [Authorization |-> <<"Basic ", "tA">>],
      [Authorization |-> <<BEARER, SP, "tA", SP>>],
      [Authorization |-> <<BEARER, "tExpired">>],
      [Authorization |-> <<BEARER, "tRevoked">>] }

\* the result of a dependency: a value, or an HTTPException
HTTPException(code, msg) ==
    [raised |-> TRUE, status_code |-> code, detail |-> msg, decoded |-> [uid |-> "none"]]
Returns(payload) ==
    [raised |-> FALSE, status_code |-> 0, detail |-> "", decoded |-> payload]

\* bug variant: the provider's exception text is passed on to the caller
verify_firebase_token_leaky(headers) ==
    LET auth_header == Get(headers, "Authorization", <<>>)
    IN  IF "Authorization" \notin DOMAIN headers \/ auth_header = <<>>
           \/ ~StartsWith(auth_header, BEARER)
        THEN HTTPException(HTTP_401_UNAUTHORIZED, "Missing Authorization bearer token")
        ELSE LET id_token == Strip(SplitSecond(auth_header, BEARER))
                 res == verify_id_token(id_token)
             IN  IF res.raised
                 THEN HTTPException(HTTP_401_UNAUTHORIZED, res.exc)
                 ELSE Returns(res.decoded)

\* bug variant: a rejection by the provider is not turned into a failure
verify_firebase_token_lax(headers) ==
    LET auth_header == Get(headers, "Authorization", <<>>)
    IN  IF "Authorization" \notin DOMAIN headers \/ auth_header = <<>>
           \/ ~StartsWith(auth_header, BEARER)
        THEN HTTPException(HTTP_401_UNAUTHORIZED, "Missing Authorization bearer token")
        ELSE Returns(verify_id_token(Strip(SplitSecond(auth_header, BEARER))).decoded)

\* verify_firebase_token(request)
verify_firebase_token(headers) ==
    LET auth_header == Get(headers, "Authorization", <<>>)
    IN  IF "Authorization" \notin DOMAIN headers \/ auth_header = <<>>
           \/ ~StartsWith(auth_header, BEARER)
        THEN HTTPException(HTTP_401_UNAUTHORIZED, "Missing Authorization bearer token")
        ELSE LET id_token == Strip(SplitSecond(auth_header, BEARER))
                 res == verify_id_token(id_token)
             IN  IF res.raised
                 THEN HTTPException(HTTP_401_UNAUTHORIZED, "Token verification failed")
                 ELSE Returns(res.decoded)

\* ------------------------------------------------------------ the User table
Fields ==
    { "id", "firebase_uid", "email", "email_verified", "display_name",
      "pii_encrypted_blob", "created_at", "updated_at", "last_login_at",
      "status", "privacy_level", "consent_version_id" }

\* the session holds no User object
NoUser ==
    [ id |-> 0, firebase_uid |-> None, email |-> None, email_verified |-> FALSE,
      display_name |-> None, pii_encrypted_blob |-> None, created_at |-> NoTime,
      updated_at |-> NoTime, last_login_at |-> NoTime, status |-> None,
      privacy_level |-> None, consent_version_id |-> None ]

\* select(User).where(User.firebase_uid == uid)
stmt(st, uid) == {r \in st : r.firebase_uid = uid}

\* bug variant: the table has no unique index on firebase_uid
NoUniqueIndex(st, row) == FALSE

\* Index("ix_user_firebase_uid", unique=True) / Column(unique=True)
UniqueViolation(st, row) == \E r \in st : r.firebase_uid = row.firebase_uid

\* Column(String(36), primary_key=True)
PrimaryKeyViolation(st, row) == \E r \in st : r.id = row.id

\* the nullable=False columns
NotNullViolation(row) ==
    \/ row.firebase_uid = None
    \/ row.email = None
    \/ row.status = None
    \/ row.privacy_level = None
    \/ row.created_at = NoTime
    \/ row.updated_at = NoTime

\* what the store raises when row is inserted into st
IntegrityError(st, row) ==
    UniqueViolation(st, row) \/ PrimaryKeyViolation(st, row) \/ NotNullViolation(row)

\* bug variant: the column has no onupdate default
updated_at_kept(row, dirty, dbnow) == row.updated_at

\* updated_at: onupdate=func.now(), used unless the UPDATE sets the column
updated_at_onupdate(row, dirty, dbnow) ==
    IF "updated_at" \in dirty THEN row.updated_at ELSE dbnow

\* bug variant: the UPDATE also writes the column defaults of status and
\* privacy_level
UpdateWritesDefaults(row, user, dirty, dbnow) ==
    [ f \in Fields |->
        IF f \in dirty THEN user[f]
        ELSE IF f = "updated_at" THEN dbnow
        ELSE IF f = "status" THEN "active"
        ELSE IF f = "privacy_level" THEN PrivacyLevel_DEFAULT
        ELSE row[f] ]

\* bug variant: created_at is refreshed by every UPDATE like updated_at
UpdateStampsCreated(row, user, dirty, dbnow) ==
    [ f \in Fields |->
        IF f \in dirty THEN user[f]
        ELSE IF f \in {"updated_at", "created_at"} THEN dbnow
        ELSE row[f] ]

\* the UPDATE a flush emits for a loaded object: only the modified
\* attributes are written to the row with the object's primary key
Update(row, user, dirty, dbnow) ==
    [ f \in Fields |->
        IF f \in dirty THEN user[f]
        ELSE IF f = "updated_at" THEN updated_at_onupdate(row, dirty, dbnow)
        ELSE row[f] ]

\* ------------------------------------------------------- User.public_dict
\* str(uuid): the canonical text of an identifier
str(id) == <<"uuid", id>>

\* datetime.isoformat(): the ISO 8601 text of a time
isoformat(t) == <<"iso8601", t>>

\* None where the mapping would hold the text of a time
NoText == <<>>

\* the blobs a row may carry in pii_encrypted_blob
Blobs == {None, "blob1", "blob2"}

\* the mapping is not built: .value of something that is no enum member
AttributeError == [raised |-> "AttributeError"]

\* bug variant: the projection copies every column of the row
public_dict_all_columns(self) ==
    [ id |-> str(self.id),
      firebase_uid |-> self.firebase_uid,
      email |-> self.email,
      email_verified |-> self.email_verified,
      display_name |-> self.display_name,
      pii_encrypted_blob |-> self.pii_encrypted_blob,
      status |-> self.status,
      privacy_level |-> self.privacy_level,
      consent_version_id |-> self.consent_version_id,
      created_at |-> isoformat(self.created_at),
      updated_at |-> isoformat(self.updated_at),
      last_login_at |-> isoformat(self.last_login_at) ]

\* User.public_dict(self)
public_dict(self) ==
    IF self.status \notin UserStatus \/ self.privacy_level \notin PrivacyLevel
    THEN AttributeError
    ELSE
    [ id |-> str(self.id),
      firebase_uid |-> self.firebase_uid,
      email |-> self.email,
      email_verified |-> self.email_verified,
      display_name |-> self.display_name,
      status |-> self.status,
      privacy_level |-> self.privacy_level,
      consent_version_id |-> IF Truthy(self.consent_version_id)
                             THEN str(self.consent_version_id) ELSE None,
      created_at |-> IF self.created_at # NoTime
                     THEN isoformat(self.created_at) ELSE NoText,
      updated_at |-> IF self.updated_at # NoTime
                     THEN isoformat(self.updated_at) ELSE NoText,
      last_login_at |-> IF self.last_login_at # NoTime
                        THEN isoformat(self.last_login_at) ELSE NoText ]

\* ------------------------------------------------- upsert_user_from_token
mirrored_email(token_payload) == Get(token_payload, "email", None)

\* bool(token_payload.get("email_verified", False)), on bool claims
email_verified(token_payload) ==
    IF "email_verified" \in DOMAIN token_payload
    THEN token_payload["email_verified"] = TRUE
    ELSE FALSE

display_name(token_payload) ==
    PyOr(Get(token_payload, "name", None), Get(token_payload, "displayName", None))

\* the User(...) constructed in the create branch
NewUser(token_payload, id, now, set_last_login, default_privacy) ==
    [ id |-> id,
      firebase_uid |-> token_payload["uid"],
      email |-> PyOr(mirrored_email(token_payload), ""),
      email_verified |-> email_verified(token_payload),
      display_name |-> display_name(token_payload),
      pii_encrypted_blob |-> None,
      created_at |-> now,
      updated_at |-> now,
      last_login_at |-> IF set_last_login THEN now ELSE NoTime,
      status |-> user_status_active,
      privacy_level |-> default_privacy,
      consent_version_id |-> None ]

\* bug variant: an absent claims email is mirrored as well
EmailDiffersUnguarded(user, email) == user.email # email

\* if mirrored_email and user.email != mirrored_email
EmailDiffers(user, email) == Truthy(email) /\ user.email # email

\* bug variant: the flag is only ever raised, never lowered
EmailVerifiedRaised(user, flag) == flag /\ ~user.email_verified

\* if user.email_verified != email_verified
EmailVerifiedDiffers(user, flag) == user.email_verified # flag

\* bug variant: the claims name only fills a display name that is not set
NameDiffersIfUnset(user, name) == Truthy(name) /\ ~Truthy(user.display_name)

\* bug variant: a non-empty claims name counts as a change even when equal
NameDiffersAlways(user, name) == Truthy(name)

\* if display_name and user.display_name != display_name
NameDiffers(user, name) == Truthy(name) /\ user.display_name # name

\* the attributes the update branch assigns
Dirty(user, token_payload, set_last_login) ==
       (IF EmailDiffers(user, mirrored_email(token_payload)) THEN {"email"} ELSE {})
    \cup (IF EmailVerifiedDiffers(user, email_verified(token_payload))
          THEN {"email_verified"} ELSE {})
    \cup (IF NameDiffers(user, display_name(token_payload)) THEN {"display_name"} ELSE {})
    \cup (IF set_last_login THEN {"last_login_at"} ELSE {})

\* the loaded object after the update branch's assignments
Assigned(user, token_payload, now, set_last_login) ==
    LET d == Dirty(user, token_payload, set_last_login)
    IN  [ f \in Fields |->
            IF f \notin d THEN user[f]
            ELSE IF f = "email" THEN mirrored_email(token_payload)
            ELSE IF f = "email_verified" THEN email_verified(token_payload)
            ELSE IF f = "display_name" THEN display_name(token_payload)
            ELSE now ]

\* bug variant: no except clause around the insert commit
CatchesNothing(exc) == FALSE

\* except IntegrityError:
Catches(exc) == exc = "IntegrityError"

\* ------------------------------------------- signup_route: onboarding merge
\* SignupRequest bodies the model sends (a field left out is None)
NoBody == [display_name |-> None, privacy_level |-> None, consent_version_id |-> None]
Bodies ==
    { [display_name |-> "Ada L.", privacy_level |-> "strict", consent_version_id |-> None],
      [display_name |-> None, privacy_level |-> None, consent_version_id |-> "cv1"],
      [display_name |-> "Ada L.", privacy_level |-> None, consent_version_id |-> "cv9"] }

\* the fields of the body
MergeFields == {"display_name", "privacy_level", "consent_version_id"}

\* the ids of the rows of table consentversion (no code of the core writes it)
consentversion == {"cv1"}

\* bug variant: the store does not enforce the foreign key
NoForeignKey(row) == FALSE

\* ForeignKey("consentversion.id") on user.consent_version_id
ForeignKeyViolation(row) ==
    Truthy(row.consent_version_id) /\ row.consent_version_id \notin consentversion

\* if body.display_name and user.display_name != body.display_name
BodyNameDiffers(user, body) ==
    Truthy(body.display_name) /\ user.display_name # body.display_name

\* if body.privacy_level and user.privacy_level != body.privacy_level
BodyPrivacyDiffers(user, body) ==
    Truthy(body.privacy_level) /\ user.privacy_level # body.privacy_level

\* if body.consent_version_id:
BodyConsentGiven(user, body) == Truthy(body.consent_version_id)

\* the attributes the merge assigns; updated = True iff this set is not empty
MergeDirty(user, body) ==
       (IF BodyNameDiffers(user, body) THEN {"display_name"} ELSE {})
    \cup (IF BodyPrivacyDiffers(user, body) THEN {"privacy_level"} ELSE {})
    \cup (IF BodyConsentGiven(user, body) THEN {"consent_version_id"} ELSE {})

\* the loaded object after the merge's assignments
Merged(user, body) ==
    [ f \in Fields |-> IF f \in MergeDirty(user, body) THEN body[f] ELSE user[f] ]

\* bug variant: the loser of the insert starts over from the lookup
AfterConflictRetry == "lookup"

\* where the except clause goes on: rollback, one re-read, return
AfterConflict == "rollback"

\* ------------------------------------------------------------------- state
VARIABLES
    store,      \* the rows of the user table
    call,       \* per request / call: position, inputs, session objects, outcome
    clock,      \* the last reading of the clock
    nextId,     \* uuid4(): the next identifier not handed out yet
    commits,    \* number of commits that wrote to the store
    sessions    \* number of open data-store sessions

vars == <<store, call, clock, nextId, commits, sessions>>

NoHeaders == [Host |-> <<"h">>]
NoPayload == [uid |-> "none"]

\* nothing has been returned to the client
NoResponse == [raised |-> "none"]

Idle ==
    [ pc |-> "idle", kind |-> "none", headers |-> NoHeaders, body |-> NoBody,
      token_payload |-> NoPayload,
      set_last_login |-> FALSE, default_privacy |-> None, now |-> NoTime,
      user |-> NoUser, dirty |-> {}, loaded |-> NoUser, exc |-> "none",
      outcome |-> "pending", status_code |-> 0, detail |-> "",
      ret |-> 0, path |-> "none", writes |-> 0, acquired |-> 0, released |-> 0,
      seen |-> 0, insert_error |-> "none", response |-> NoResponse ]

\* the row an earlier run left in the table: upsert_user_from_token called
\* at time 1 with the claims of token tA and the default arguments
EarlierUser == NewUser(ValidTokens["tA"], 1, 1, TRUE, PrivacyLevel_DEFAULT)

\* after init_db(): the table exists, empty or with the row of an earlier run
Init ==
    /\ store \in {{}, {EarlierUser}}
    /\ call = [c \in Calls |-> Idle]
    /\ clock = 1
    /\ nextId = 2
    /\ commits = 0
    /\ sessions = 0

InFlight == {c \in Calls : call[c].pc \notin {"idle", "done"}}

\* a new request may arrive: slots are used in order
MayStart(c) ==
    /\ call[c].pc = "idle"
    /\ IF c = 1 THEN TRUE ELSE call[c - 1].pc # "idle"
    /\ Cardinality(InFlight) < MaxConc

\* what is kept of a request once it is over
Finished(r) ==
    [ Idle EXCEPT !.pc = "done", !.kind = r.kind, !.headers = r.headers,
                  !.token_payload = [uid |-> r.token_payload["uid"]],
                  !.exc = r.exc, !.outcome = r.outcome,
                  !.status_code = r.status_code, !.detail = r.detail,
                  !.ret = r.ret, !.path = r.path, !.writes = r.writes,
                  !.acquired = r.acquired, !.released = r.released,
                  !.insert_error = r.insert_error, !.response = r.response ]

\* ---------------------------------------------------------------- routes
\* login_route takes no body, signup_route a SignupRequest
BodiesOf(k) == IF k = "signup" THEN Bodies ELSE {NoBody}

\* POST /auth/login or /auth/signup arrives with its headers and
\* Depends(verify_firebase_token) is resolved (the dependency awaits nothing):
\* the request is answered with the HTTPException, or the route body is next
Request(c) ==
    /\ MayStart(c)
    /\ \E k \in {"login", "signup"}, h \in Headers :
       \E b \in BodiesOf(k) :
          LET res == verify_firebase_token(h)
              r == [call[c] EXCEPT !.kind = k, !.headers = h]
          IN  call' = [call EXCEPT ![c] =
                IF res.raised
                THEN Finished([r EXCEPT !.outcome = "http", !.exc = "HTTPException",
                                        !.status_code = res.status_code,
                                        !.detail = res.detail])
                ELSE [r EXCEPT !.pc = "enter", !.token_payload = res.decoded,
                               !.body = b,
                               !.set_last_login = TRUE,
                               !.default_privacy = PrivacyLevel_DEFAULT]]
    /\ UNCHANGED <<store, clock, nextId, commits, sessions>>

\* async with async_session() as session: async_session() is a plain async
\* generator, which has no __aenter__; the statement raises TypeError before
\* the generator body (and AsyncSessionLocal()) runs
EnterSession(c) ==
    /\ call[c].pc = "enter"
    /\ call' = [call EXCEPT ![c] =
                Finished([@ EXCEPT !.outcome = "raised", !.exc = "TypeError"])]
    /\ UNCHANGED <<store, clock, nextId, commits, sessions>>

\* ------------------------------------------- direct calls of the routine
\* a caller that obtains its session from async_session driven as a
\* dependency (the generator runs up to its yield: session =
\* AsyncSessionLocal()) calls upsert_user_from_token(token_payload, session,
\* set_last_login=..., default_privacy=...)
CallUpsert(c, dp) ==
    /\ MayStart(c)
    /\ \E tp \in Payloads, sll \in BOOLEAN :
          call' = [call EXCEPT ![c] =
                     [@ EXCEPT !.pc = "lookup", !.kind = "upsert", !.token_payload = tp,
                               !.set_last_login = sll, !.default_privacy = dp,
                               !.acquired = @ + 1]]
    /\ sessions' = sessions + 1
    /\ UNCHANGED <<store, clock, nextId, commits>>

\* the exception exc leaves upsert_user_from_token and is thrown into
\* async_session at its yield: finally: await session.close()
Raise(r, exc) ==
    Finished([r EXCEPT !.outcome = "raised", !.exc = exc, !.released = @ + 1])

\* return user.public_dict() at the end of a route body; leaving the
\* async with block closes the session
Respond(r, user) ==
    Finished([r EXCEPT !.outcome = "returned", !.ret = user.id,
                       !.response = public_dict(user), !.released = @ + 1])

\* return user.  A direct caller is done with the session and async_session
\* resumes after its yield: finally: await session.close().  login_route
\* goes on to line 28; signup_route goes on with lines 42-57, which await
\* nothing: the merge's assignments, and the response if nothing was assigned
Return(r, user) ==
    IF r.kind = "signup"
    THEN IF MergeDirty(user, r.body) = {}
         THEN Respond(r, user)
         ELSE [r EXCEPT !.pc = "merge_commit", !.loaded = user,
                        !.user = Merged(user, r.body),
                        !.dirty = MergeDirty(user, r.body),
                        !.now = NoTime, !.seen = 0]
    ELSE IF r.kind = "login"
    THEN Respond(r, user)
    ELSE Finished([r EXCEPT !.outcome = "returned", !.ret = user.id, !.released = @ + 1])

\* the sessions open after a step of call c
Release(c) == sessions' = IF call'[c].pc = "done" THEN sessions - 1 ELSE sessions

\* lines 47-68 and 79-92: the lookup, the reading of the clock and either the
\* construction of the new User or the assignments of the update branch
Lookup(c) ==
    /\ call[c].pc = "lookup"
    /\ LET r == call[c]
           found == stmt(store, r.token_payload["uid"])
           now == clock + 1
       IN  /\ clock' = now
           /\ IF Cardinality(found) > 1
              THEN /\ call' = [call EXCEPT ![c] = Raise(r, "MultipleResultsFound")]
                   /\ UNCHANGED nextId
              ELSE IF found = {}
              THEN /\ call' = [call EXCEPT ![c] =
                         [r EXCEPT !.pc = "commit_insert", !.now = now, !.seen = commits,
                                   !.path = "created",
                                   !.user = NewUser(r.token_payload, nextId, now,
                                                    r.set_last_login, r.default_privacy)]]
                   /\ nextId' = nextId + 1
              ELSE LET user == CHOOSE u \in found : TRUE
                       d == Dirty(user, r.token_payload, r.set_last_login)
                       r2 == [r EXCEPT !.now = now, !.seen = commits, !.path = "found",
                                       !.loaded = user]
                   IN  /\ call' = [call EXCEPT ![c] =
                             IF d = {}
                             THEN Return(r2, user)
                             ELSE [r2 EXCEPT !.pc = "commit_update", !.dirty = d,
                                             !.user = Assigned(user, r.token_payload, now,
                                                               r.set_last_login)]]
                       /\ UNCHANGED nextId
    /\ Release(c)
    /\ UNCHANGED <<store, commits>>

\* session.add(user); await session.commit() in the create branch
CommitInsert(c) ==
    /\ call[c].pc = "commit_insert"
    /\ LET r == call[c]
       IN  IF IntegrityError(store, r.user)
           THEN /\ call' = [call EXCEPT ![c] =
                      IF Catches("IntegrityError")
                      THEN [r EXCEPT !.pc = AfterConflict, !.path = "raced", !.user = NoUser,
                                     !.insert_error =
                                        IF UniqueViolation(store, r.user)
                                        THEN "unique" ELSE "other integrity"]
                      ELSE Raise(r, "IntegrityError")]
                /\ UNCHANGED <<store, commits>>
           ELSE /\ store' = store \cup {r.user}
                /\ commits' = commits + 1
                /\ call' = [call EXCEPT ![c] =
                             [r EXCEPT !.pc = "refresh", !.writes = @ + 1, !.dirty = {}]]
    /\ Release(c)
    /\ UNCHANGED <<clock, nextId>>

\* session.add(user); await session.commit() in the update branch
CommitUpdate(c) ==
    /\ call[c].pc = "commit_update"
    /\ LET r == call[c]
           dbnow == clock + 1
           new == {IF row.id = r.user.id THEN Update(row, r.user, r.dirty, dbnow)
                                         ELSE row : row \in store}
       IN  /\ clock' = dbnow
           /\ IF \E row \in new : NotNullViolation(row)
              THEN /\ call' = [call EXCEPT ![c] = Raise(r, "IntegrityError")]
                   /\ UNCHANGED <<store, commits>>
              ELSE /\ store' = new
                   /\ commits' = commits + 1
                   /\ call' = [call EXCEPT ![c] =
                                [r EXCEPT !.pc = "refresh", !.writes = @ + 1, !.dirty = {}]]
    /\ Release(c)
    /\ UNCHANGED nextId

\* await session.refresh(user), then return user
Refresh(c) ==
    /\ call[c].pc = "refresh"
    /\ LET r == call[c]
           rows == {row \in store : row.id = r.user.id}
       IN  call' = [call EXCEPT ![c] =
              IF rows = {} THEN Raise(r, "InvalidRequestError")
              ELSE Return(r, CHOOSE row \in rows : TRUE)]
    /\ Release(c)
    /\ UNCHANGED <<store, clock, nextId, commits>>

\* the except clause: await session.rollback() (which discards the pending
\* object and touches nothing shared), then
\* result = await session.exec(stmt); user = result.scalar_one()
Reread(c) ==
    /\ call[c].pc = "rollback"
    /\ LET r == call[c]
           found == stmt(store, r.token_payload["uid"])
       IN  call' = [call EXCEPT ![c] =
              IF found = {} THEN Raise(r, "NoResultFound")
              ELSE IF Cardinality(found) > 1 THEN Raise(r, "MultipleResultsFound")
              ELSE Return(r, CHOOSE u \in found : TRUE)]
    /\ Release(c)
    /\ UNCHANGED <<store, clock, nextId, commits>>

\* the privacy levels callers pass as default_privacy
DefaultPrivacies == {"strict"}

Next ==
    \E c \in Calls :
        \/ Request(c)
        \/ EnterSession(c)
        \/ \E dp \in DefaultPrivacies : CallUpsert(c, dp)
        \/ Lookup(c)
        \/ CommitInsert(c)
        \/ CommitUpdate(c)
        \/ Refresh(c)
        \/ Reread(c)

Spec == Init /\ [][Next]_vars

\* ---------------------------------------------------- persistence failures
\* await session.commit() fails for a reason that is not a constraint of the
\* table (connection lost, store locked): an OperationalError, which no
\* except clause of the routine names
CommitFails(c) ==
    /\ call[c].pc \in {"commit_insert", "commit_update"}
    /\ call' = [call EXCEPT ![c] =
                 Raise([@ EXCEPT !.insert_error =
                                   IF @ = "none" /\ call[c].pc = "commit_insert"
                                   THEN "operational" ELSE @],
                       "OperationalError")]
    /\ Release(c)
    /\ UNCHANGED <<store, clock, nextId, commits>>

\* the same program, with callers that pass default_privacy=None and with
\* commits that may fail
NextFault ==
    \/ Next
    \/ \E c \in Calls : CallUpsert(c, None)
    \/ \E c \in Calls : CommitFails(c)

SpecFault == Init /\ [][NextFault]_vars

\* ------------------------------------------------- the PostgreSQL store
\* func.now() on the store of the non-dev configuration (db.py lines 22-25):
\* PostgreSQL's now() is the start time of the current transaction.  The
\* session begins its transaction with the SELECT of line 49, which the
\* model takes in one step with the reading of the clock at line 52
transaction_timestamp(r) == r.now

\* session.add(user); await session.commit() in the update branch, with
\* updated_at taken from the store's now()
CommitUpdatePostgres(c) ==
    /\ call[c].pc = "commit_update"
    /\ LET r == call[c]
           dbnow == transaction_timestamp(r)
           new == {IF row.id = r.user.id THEN Update(row, r.user, r.dirty, dbnow)
                                         ELSE row : row \in store}
       IN  IF \E row \in new : NotNullViolation(row)
           THEN /\ call' = [call EXCEPT ![c] = Raise(r, "IntegrityError")]
                /\ UNCHANGED <<store, commits>>
           ELSE /\ store' = new
                /\ commits' = commits + 1
                /\ call' = [call EXCEPT ![c] =
                             [r EXCEPT !.pc = "refresh", !.writes = @ + 1, !.dirty = {}]]
    /\ Release(c)
    /\ UNCHANGED <<clock, nextId>>

\* direct calls of the routine on the PostgreSQL store
NextPostgres ==
    \E c \in Calls :
        \/ \E dp \in DefaultPrivacies : CallUpsert(c, dp)
        \/ Lookup(c)
        \/ CommitInsert(c)
        \/ CommitUpdatePostgres(c)
        \/ Refresh(c)
        \/ Reread(c)

SpecPostgres == Init /\ [][NextPostgres]_vars

\* ------------------------------------- the routes with a working session
\* the credential these requests carry: a token the provider accepts
AcceptedHeaders == {[Authorization |-> <<BEARER, "tA">>]}

\* POST /auth/login or /auth/signup with an accepted credential, in a
\* deployment where async with async_session() yields a session (the factory
\* wrapped by contextlib.asynccontextmanager, as its docstring expects):
\* the dependency is resolved, the session is created and the route body
\* calls upsert_user_from_token(token_payload, session[, set_last_login=True])
RouteWithSession(c) ==
    /\ MayStart(c)
    /\ \E k \in {"login", "signup"}, h \in AcceptedHeaders :
       \E b \in BodiesOf(k) :
          call' = [call EXCEPT ![c] =
                     [@ EXCEPT !.pc = "lookup", !.kind = k, !.headers = h, !.body = b,
                               !.token_payload = verify_firebase_token(h).decoded,
                               !.set_last_login = TRUE,
                               !.default_privacy = PrivacyLevel_DEFAULT,
                               !.acquired = @ + 1]]
    /\ sessions' = sessions + 1
    /\ UNCHANGED <<store, clock, nextId, commits>>

\* lines 57-59 of signup_route: session.add(user); await session.commit().
\* The flush emits an UPDATE for the assigned attributes whose value is not
\* the loaded one (none at all if there is no such attribute), the store
\* checks the foreign key, and the transaction is committed.  The refresh
\* that follows reloads every attribute, so only the identity of the
\* session's object is kept
MergeCommit(c) ==
    /\ call[c].pc = "merge_commit"
    /\ LET r == call[c]
           net == {f \in r.dirty : r.user[f] # r.loaded[f]}
           dbnow == clock + 1
           new == {IF row.id = r.user.id /\ net # {}
                   THEN Update(row, r.user, net, dbnow) ELSE row : row \in store}
       IN  /\ clock' = dbnow
           /\ IF \E row \in new : ForeignKeyViolation(row)
              THEN /\ call' = [call EXCEPT ![c] = Raise(r, "IntegrityError")]
                   /\ UNCHANGED <<store, commits>>
              ELSE /\ store' = new
                   /\ commits' = commits + 1
                   /\ call' = [call EXCEPT ![c] =
                                [r EXCEPT !.pc = "merge_refresh", !.writes = @ + 1,
                                          !.dirty = {}, !.loaded = NoUser,
                                          !.user = [NoUser EXCEPT !.id = r.user.id]]]
    /\ Release(c)
    /\ UNCHANGED nextId

\* lines 60-62 of signup_route: await session.refresh(user);
\* return user.public_dict()
MergeRefresh(c) ==
    /\ call[c].pc = "merge_refresh"
    /\ LET r == call[c]
           rows == {row \in store : row.id = r.user.id}
       IN  call' = [call EXCEPT ![c] =
              IF rows = {} THEN Raise(r, "InvalidRequestError")
              ELSE Respond(r, CHOOSE row \in rows : TRUE)]
    /\ Release(c)
    /\ UNCHANGED <<store, clock, nextId, commits>>

NextScoped ==
    \E c \in Calls :
        \/ RouteWithSession(c)
        \/ Lookup(c)
        \/ CommitInsert(c)
        \/ CommitUpdate(c)
        \/ Refresh(c)
        \/ Reread(c)
        \/ MergeCommit(c)
        \/ MergeRefresh(c)

SpecScoped == Init /\ [][NextScoped]_vars

\* ------------------------------------------------- the projection alone
\* the valid User values the projection is applied to: every status and
\* privacy level, with and without blob, display name, last login and
\* consent version
ProjectedUsers ==
    { [EarlierUser EXCEPT !.pii_encrypted_blob = b, !.display_name = dn,
                          !.last_login_at = l, !.consent_version_id = cv,
                          !.status = s, !.privacy_level = p] :
        b \in Blobs, dn \in {None, "Ada"}, l \in {NoTime, 1},
        cv \in {None, "cv1"}, s \in UserStatus, p \in PrivacyLevel }

InitProjection ==
    /\ store \in {{u} : u \in ProjectedUsers}
    /\ call = [c \in Calls |-> Idle]
    /\ clock = 1
    /\ nextId = 2
    /\ commits = 0
    /\ sessions = 0

\* user.public_dict() on a stored row
Project(c) ==
    /\ MayStart(c)
    /\ \E user \in store :
          call' = [call EXCEPT ![c] =
                     Finished([@ EXCEPT !.kind = "public_dict", !.outcome = "returned",
                                        !.ret = user.id,
                                        !.response = public_dict(user)])]
    /\ UNCHANGED <<store, clock, nextId, commits, sessions>>

NextProjection == \E c \in Calls : Project(c)

SpecProjection == InitProjection /\ [][NextProjection]_vars

\* ------------------------------------------------------------- properties
UpsertCalls == {c \in Calls : call[c].kind = "upsert"}
RouteCalls == {c \in Calls : call[c].kind \in {"login", "signup"}}
uid_of(c) == call[c].token_payload["uid"]

\* C1: create-once under concurrency.  Without persistence failures, no call
\* of upsert_user_from_token fails, and every call that is over has returned
\* the id of the one row stored for its subject, so that concurrent calls for
\* the same new subject all return the same id.
CreateOnce ==
    \A c \in UpsertCalls :
        /\ call[c].outcome # "raised"
        /\ call[c].pc = "done" =>
              /\ call[c].outcome = "returned"
              /\ Cardinality(stmt(store, uid_of(c))) = 1
              /\ \A r \in stmt(store, uid_of(c)) : r.id = call[c].ret
              /\ \A d \in UpsertCalls :
                    (call[d].pc = "done" /\ uid_of(d) = uid_of(c)) => call[d].ret = call[c].ret

\* two calls for the same new subject are over: one inserted the row, the
\* other lost the insert and re-read it
CreateOnceWitness ==
    \E c, d \in UpsertCalls :
        /\ c # d /\ uid_of(c) = uid_of(d)
        /\ call[c].pc = "done" /\ call[d].pc = "done"
        /\ call[c].path = "created" /\ call[d].path = "raced"
        /\ call[c].ret = call[d].ret /\ call[c].ret # 0

\* C2: in every state the table holds at most one row per firebase_uid, and
\* exactly one for every subject for which a call has returned; nothing but
\* the unique index keeps two calls out of the create branch at once.
OneRowPerSubject ==
    /\ \A r1, r2 \in store : r1.firebase_uid = r2.firebase_uid => r1 = r2
    /\ \A c \in UpsertCalls :
          call[c].outcome = "returned" => Cardinality(stmt(store, uid_of(c))) = 1

\* two calls are between their lookup and their insert commit for the same
\* subject at the same time, and a row for another subject is stored
OneRowPerSubjectWitness ==
    \E c, d \in UpsertCalls :
        /\ c # d /\ uid_of(c) = uid_of(d)
        /\ call[c].pc = "commit_insert" /\ call[d].pc = "commit_insert"
        /\ \E r \in store : r.firebase_uid # uid_of(c)

\* C3: in the create branch only a uniqueness violation on firebase_uid is
\* absorbed: a call whose insert commit failed for any other reason (another
\* constraint, or a failure that is no constraint violation) ends in failure
\* and never returns a user.
OnlyUniquenessAbsorbed ==
    \A c \in UpsertCalls :
        call[c].insert_error \in {"other integrity", "operational"}
            => call[c].outcome # "returned"

\* the row stored for the subject of call c
StoredRow(st, c) == CHOOSE r \in st : r.firebase_uid = uid_of(c)

\* call c takes its update commit in this step
CommitsUpdate(c) == call[c].pc = "commit_update" /\ call'[c].pc = "refresh"

\* C4: non-destructive merge.  No step turns a stored non-empty email or
\* display name into an empty or absent one, and the update commit of a call
\* whose claims carry no email (no display name) leaves the stored email
\* (display name) as it was.
NonDestructiveMerge ==
    [][ /\ \A r \in store : \A r2 \in store' :
              r2.id = r.id =>
                 /\ Truthy(r.email) => Truthy(r2.email)
                 /\ Truthy(r.display_name) => Truthy(r2.display_name)
        /\ \A c \in UpsertCalls :
              CommitsUpdate(c) =>
                 /\ ~Truthy(mirrored_email(call[c].token_payload))
                       => StoredRow(store', c).email = StoredRow(store, c).email
                 /\ ~Truthy(display_name(call[c].token_payload))
                       => StoredRow(store', c).display_name
                            = StoredRow(store, c).display_name
      ]_vars

\* a call whose claims carry neither email nor name has committed an update
\* of a row that has both, and the row still has both
NonDestructiveMergeWitness ==
    \E c \in UpsertCalls :
        /\ call[c].pc = "refresh" /\ call[c].path = "found"
        /\ ~Truthy(mirrored_email(call[c].token_payload))
        /\ ~Truthy(display_name(call[c].token_payload))
        /\ Truthy(call[c].loaded.email) /\ Truthy(call[c].loaded.display_name)
        /\ StoredRow(store, c).email = call[c].loaded.email
        /\ StoredRow(store, c).display_name = call[c].loaded.display_name

\* call c returns in this step without having committed anything
ReturnsUnwritten(c) ==
    /\ call[c].pc = "lookup" /\ call'[c].pc = "done"
    /\ call'[c].path = "found" /\ call'[c].outcome = "returned"

\* C5: the verification flag is mirrored verbatim.  The update commit of a
\* call that read a stored flag different from its claims stores the claims'
\* flag, from false to true and from true to false; and a reconciliation of
\* an existing user during which no other call committed ends with the stored
\* flag equal to the claims' flag (False when the claim is absent).
MirrorsEmailVerified ==
    [][ \A c \in UpsertCalls :
          /\ CommitsUpdate(c) =>
                /\ call[c].loaded.email_verified # email_verified(call[c].token_payload)
                      => StoredRow(store', c).email_verified
                           = email_verified(call[c].token_payload)
                /\ commits = call[c].seen
                      => StoredRow(store', c).email_verified
                           = email_verified(call[c].token_payload)
          /\ ReturnsUnwritten(c) =>
                StoredRow(store', c).email_verified
                   = email_verified(call[c].token_payload)
      ]_vars

\* a call whose claims say false (here: carry no flag) has committed on a row
\* whose flag was true, and the stored flag is now false
MirrorsEmailVerifiedWitness ==
    \E c \in UpsertCalls :
        /\ call[c].pc = "refresh" /\ call[c].path = "found"
        /\ call[c].loaded.email_verified = TRUE
        /\ "email_verified" \notin DOMAIN call[c].token_payload
        /\ StoredRow(store, c).email_verified = FALSE

\* the claims' non-empty email, flag and non-empty name equal those of user
ClaimsEqual(user, token_payload) ==
    /\ Truthy(mirrored_email(token_payload)) => user.email = mirrored_email(token_payload)
    /\ user.email_verified = email_verified(token_payload)
    /\ Truthy(display_name(token_payload)) => user.display_name = display_name(token_payload)

\* call c returns a user in this step
ReturnsUser(c) ==
    call[c].pc # "done" /\ call'[c].pc = "done" /\ call'[c].outcome = "returned"

\* the commit count call c saw at its lookup
SeenAtLookup(c) == IF call[c].pc = "lookup" THEN commits ELSE call[c].seen

LoginOfReturningUser ==
    [][ \A c \in UpsertCalls :
             /\ (call[c].pc = "lookup" /\ call'[c].path = "found" /\ call[c].set_last_login)
                   => call'[c].pc = "commit_update"
             /\ (ReturnsUser(c) /\ call[c].path = "found" /\ call[c].set_last_login)
                   => call'[c].writes = 1
             /\ CommitsUpdate(c) =>
                  /\ call[c].set_last_login
                        => StoredRow(store', c).last_login_at = call[c].now
                  /\ ( /\ Truthy(mirrored_email(call[c].token_payload))
                       /\ call[c].loaded.email # mirrored_email(call[c].token_payload) )
                        => /\ StoredRow(store', c).email
                                = mirrored_email(call[c].token_payload)
                           /\ StoredRow(store', c).updated_at
                                > StoredRow(store, c).updated_at
      ]_vars

\* one returning login has committed although none of its mirrored fields
\* differed, another has committed a changed email
LoginOfReturningUserWitness ==
    \E c, d \in UpsertCalls :
        /\ call[c].path = "found" /\ call[c].set_last_login
        /\ call[c].pc = "refresh" /\ call[c].writes = 1
        /\ ClaimsEqual(call[c].loaded, call[c].token_payload)
        /\ StoredRow(store, c).last_login_at = call[c].now
        /\ call[d].path = "found" /\ call[d].set_last_login /\ call[d].pc = "refresh"
        /\ call[d].loaded.email # mirrored_email(call[d].token_payload)
        /\ StoredRow(store, d).email = mirrored_email(call[d].token_payload)
        /\ StoredRow(store, d).email = "b@x.com"
        /\ StoredRow(store, d).updated_at > call[d].loaded.updated_at

\* the credentials of the model that carry a token the provider accepts
Accepted(headers) ==
    /\ "Authorization" \in DOMAIN headers
    /\ \E t \in DOMAIN ValidTokens :
          headers["Authorization"] \in {<<BEARER, t>>, <<BEARER, SP, t, SP>>}

\* the Authorization header is present and starts with the scheme prefix
Prefixed(headers) ==
    /\ "Authorization" \in DOMAIN headers
    /\ headers["Authorization"] # <<>>
    /\ Head(headers["Authorization"]) = BEARER

\* C8: a login or signup request whose credential is missing, malformed or
\* rejected ends with 401 in the step that verifies it: it never acquires a
\* session, never starts the reconciliation, and that step leaves the store,
\* the commit count and the sessions as they were.
UnauthenticatedTouchesNothing ==
    /\ [](\A c \in RouteCalls :
            ~Accepted(call[c].headers)
            => /\ call[c].pc = "done"
               /\ call[c].outcome = "http"
               /\ call[c].status_code = HTTP_401_UNAUTHORIZED
               /\ call[c].acquired = 0 /\ call[c].writes = 0
               /\ call[c].path = "none")
    /\ [][ \A c \in Calls :
             ( /\ call[c].pc = "idle" /\ call'[c].kind \in {"login", "signup"}
               /\ ~Accepted(call'[c].headers) )
             => store' = store /\ commits' = commits /\ sessions' = sessions
         ]_vars

\* a request with a rejected credential is over with 401 while rows are
\* stored and a call of the routine is about to commit
UnauthenticatedTouchesNothingWitness ==
    \E c \in RouteCalls, d \in UpsertCalls :
        /\ call[c].pc = "done" /\ ~Accepted(call[c].headers)
        /\ Prefixed(call[c].headers)
        /\ call[c].status_code = HTTP_401_UNAUTHORIZED
        /\ store # {}
        /\ call[d].pc = "commit_update"

\* C9 as stated: every verification failure has the same status and the
\* same message, whatever its cause.
SingleOpaqueFailure ==
    \A c, d \in RouteCalls :
        (call[c].outcome = "http" /\ call[d].outcome = "http")
        => /\ call[c].status_code = call[d].status_code
           /\ call[c].detail = call[d].detail

\* C9 as amended: every verification failure has status 401; the message is
\* "Token verification failed" for every credential the provider rejects,
\* whatever the provider's reason, and "Missing Authorization bearer token"
\* for a missing header or one without the "Bearer " prefix.
OpaqueProviderFailure ==
    \A c \in RouteCalls :
        call[c].outcome = "http"
        => /\ call[c].status_code = HTTP_401_UNAUTHORIZED
           /\ call[c].detail = IF Prefixed(call[c].headers)
                                THEN "Token verification failed"
                                ELSE "Missing Authorization bearer token"

\* two requests were rejected by the provider for different reasons and got
\* the same answer
OpaqueProviderFailureWitness ==
    \E c, d \in RouteCalls :
        /\ call[c].outcome = "http" /\ call[d].outcome = "http"
        /\ call[c].headers = [Authorization |-> <<BEARER, "tExpired">>]
        /\ call[d].headers = [Authorization |-> <<BEARER, "tRevoked">>]
        /\ call[c].detail = call[d].detail

\* C10: every login or signup request that passed verification has acquired
\* exactly one session and released it when it is over, and no session is
\* open when no request is in flight.
SessionDiscipline ==
    /\ \A c \in RouteCalls :
          (call[c].pc = "done" /\ call[c].outcome # "http")
          => call[c].acquired = 1 /\ call[c].released = 1
    /\ InFlight = {} => sessions = 0

\* the keys of the public projection
PublicKeys ==
    { "id", "firebase_uid", "email", "email_verified", "display_name", "status",
      "privacy_level", "consent_version_id", "created_at", "updated_at",
      "last_login_at" }

ProjectionCalls == {c \in Calls : call[c].kind = "public_dict"}

\* C11: projection excludes secrets.  The mapping returned for a row has
\* exactly the public keys (none for the PII blob), it is the mapping
\* public_dict gives for the same row with any other blob in place of its
\* own, and it is built for every valid row, also one without last login
\* and consent version.
ProjectionExcludesSecrets ==
    \A c \in ProjectionCalls : \A user \in store :
        /\ call[c].response # AttributeError
        /\ DOMAIN call[c].response = PublicKeys
        /\ \A b \in Blobs :
              public_dict([user EXCEPT !.pii_encrypted_blob = b]) = call[c].response

\* a row with a blob, without last login and consent version, has been
\* projected
ProjectionExcludesSecretsWitness ==
    \E c \in ProjectionCalls : \E user \in store :
        /\ call[c].pc = "done" /\ call[c].ret = user.id
        /\ user.pii_encrypted_blob = "blob1"
        /\ user.last_login_at = NoTime /\ user.consent_version_id = None
        /\ call[c].response.last_login_at = NoText
        /\ call[c].response.consent_version_id = None

\* call c is a signup request that passed verification and ends in this step
SignupEnds(c) ==
    /\ call[c].kind = "signup"
    /\ call[c].pc \notin {"idle", "done"}
    /\ call'[c].pc = "done"

\* C12: a signup request that passed verification and supplied a display
\* name D and a privacy level P ends by returning the row stored for its
\* subject, which has displayName = D and privacyLevel = P (the merge ran
\* after the reconciliation) and, when the request created it, status
\* active and the claims' email.
SignupAppliesOnboarding ==
    [][ \A c \in Calls :
          ( /\ SignupEnds(c)
            /\ Truthy(call[c].body.display_name)
            /\ Truthy(call[c].body.privacy_level) )
          => /\ call'[c].outcome = "returned"
             /\ stmt(store', uid_of(c)) # {}
             /\ call'[c].ret = StoredRow(store', c).id
             /\ StoredRow(store', c).display_name = call[c].body.display_name
             /\ StoredRow(store', c).privacy_level = call[c].body.privacy_level
             /\ call'[c].path = "created"
                   => /\ StoredRow(store', c).status = user_status_active
                      /\ StoredRow(store', c).email
                            = mirrored_email(call[c].token_payload)
      ]_vars

\* the reconciliation of signup request c returns in this step
UpsertReturnsInSignup(c) ==
    /\ call[c].kind = "signup"
    /\ call[c].pc \in {"lookup", "refresh", "rollback"}
    /\ \/ call'[c].pc = "merge_commit"
       \/ call'[c].pc = "done" /\ call'[c].outcome = "returned"

\* the supplied fields of the body of c that differ from the stored row
SuppliedAndDifferent(c) ==
    {f \in MergeFields : /\ Truthy(call[c].body[f])
                         /\ StoredRow(store, c)[f] # call[c].body[f]}

\* C13: the onboarding merge is diff-gated for displayName, privacyLevel and
\* consentVersionId.  When the reconciliation of a signup returns, the merge
\* assigns exactly the supplied fields that differ from the user's values;
\* if there is none the request ends without a further commit, otherwise it
\* performs exactly one more commit.
DiffGatedMerge ==
    [][ \A c \in Calls :
          /\ UpsertReturnsInSignup(c) =>
                IF SuppliedAndDifferent(c) = {}
                THEN call'[c].pc = "done" /\ call'[c].writes = call[c].writes
                ELSE /\ call'[c].pc = "merge_commit"
                     /\ call'[c].dirty = SuppliedAndDifferent(c)
          /\ (call[c].pc = "merge_commit" /\ call'[c].pc = "merge_refresh")
                => call'[c].writes = call[c].writes + 1 /\ commits' = commits + 1
          /\ (call[c].pc = "merge_refresh" /\ call'[c].pc = "done")
                => call'[c].writes = call[c].writes /\ commits' = commits
      ]_vars

\* C14: id, externalSubjectId and createdAt are immutable.  Every step keeps
\* every stored row, under the same id, with the firebase_uid and the
\* created_at it had: no reconciliation (create, create race, update) and no
\* onboarding merge changes them.
IdentityImmutable ==
    [][ \A r \in store :
          /\ \E r2 \in store' : r2.id = r.id
          /\ \A r2 \in store' :
                (r2.id = r.id \/ r2.firebase_uid = r.firebase_uid)
                => /\ r2.id = r.id
                   /\ r2.firebase_uid = r.firebase_uid
                   /\ r2.created_at = r.created_at
      ]_vars

\* a row was created in a race (one request inserted it, another lost the
\* insert and re-read it) and has since been changed by an onboarding merge
IdentityImmutableWitness ==
    \E c, d \in Calls : \E r \in store :
        /\ call[c].path = "raced" /\ call[c].pc = "done"
        /\ call[d].path = "created" /\ call[d].ret = r.id
        /\ call[d].kind = "signup" /\ call[d].writes = 2
        /\ r.privacy_level = "strict" /\ r.display_name = "Ada L."
        /\ r.updated_at > r.created_at

\* C15: updatedAt tracks the true last writer.  Every step that changes a
\* stored row moves its updated_at to a later time, so updated_at never
\* decreases and the stored value is the one set by the commit that came
\* last.
UpdatedAtTracksLastWriter ==
    [][ \A r \in store : \A r2 \in store' :
          (r2.id = r.id /\ r2 # r) => r2.updated_at > r.updated_at
      ]_vars

\* C16: lastLoginAt only advances.  No step moves the last_login_at of a
\* stored row to an earlier time.
LastLoginOnlyAdvances ==
    [][ \A r \in store : \A r2 \in store' :
          r2.id = r.id => r2.last_login_at >= r.last_login_at
      ]_vars

\* call c takes a step
Steps(c) == call'[c] # call[c]

\* C17: the loser of the create race writes nothing.  The step in which the
\* insert of a call is rejected and every later step of that call leave the
\* store and the commit count as they are; after the rollback the call takes
\* exactly one more step, the re-read, and ends there, returning the id of
\* the row stored for its subject; it has committed nothing when it is over.
RaceLoserWritesNothing ==
    [][ \A c \in UpsertCalls :
          /\ (Steps(c) /\ call'[c].path = "raced")
                => /\ store' = store /\ commits' = commits
                   /\ call'[c].writes = 0
          /\ (Steps(c) /\ call'[c].path = "raced" /\ call[c].path # "raced")
                => call[c].pc = "commit_insert" /\ call'[c].pc = "rollback"
          /\ (Steps(c) /\ call[c].path = "raced")
                => /\ call[c].pc = "rollback"
                   /\ call'[c].pc = "done" /\ call'[c].path = "raced"
                   /\ call'[c].outcome = "returned"
                   /\ call'[c].ret = StoredRow(store, c).id
      ]_vars

\* a call lost the insert, re-read and returned the winner's row; the only
\* commit is the winner's insert, and the row carries no login stamp
RaceLoserWritesNothingWitness ==
    \E c, d \in UpsertCalls :
        /\ call[c].pc = "done" /\ call[c].path = "raced" /\ call[c].writes = 0
        /\ call[d].pc = "done" /\ call[d].path = "created" /\ call[d].writes = 1
        /\ call[c].ret = call[d].ret
        /\ commits = 1
        /\ StoredRow(store, c).id = call[c].ret
        /\ StoredRow(store, c).last_login_at = NoTime

\* the columns the reconciliation of an existing user must leave alone
FrameFields == {"status", "privacy_level", "consent_version_id", "pii_encrypted_blob"}

\* C18: reconciliation of an existing user writes only email, emailVerified,
\* displayName, lastLoginAt and updatedAt.  No step of upsert_user_from_token
\* changes status, privacy_level, consent_version_id or pii_encrypted_blob
\* of a stored row, whatever the claims, set_last_login and default_privacy
\* of the call; any other column that changes is one of the five; and
\* default_privacy is the privacy level of the row the call inserts.
ReconciliationFrame ==
    [][ /\ \A r \in store : \A r2 \in store' :
              r2.id = r.id =>
                 /\ \A f \in FrameFields : r2[f] = r[f]
                 /\ \A f \in Fields :
                       r2[f] # r[f] => f \in {"email", "email_verified", "display_name",
                                              "last_login_at", "updated_at"}
        /\ \A c \in UpsertCalls :
              (call[c].pc = "commit_insert" /\ call'[c].pc = "refresh")
              => StoredRow(store', c).privacy_level = call[c].default_privacy
      ]_vars

\* a call with default_privacy = strict has found and updated a row whose
\* privacy level is default, and the row still has it
ReconciliationFrameWitness ==
    \E c \in UpsertCalls :
        /\ call[c].pc = "refresh" /\ call[c].path = "found" /\ call[c].writes = 1
        /\ call[c].default_privacy = "strict"
        /\ StoredRow(store, c).privacy_level = PrivacyLevel_DEFAULT
        /\ StoredRow(store, c).updated_at > StoredRow(store, c).created_at

\* C19: a display name supplied at signup does not survive a later
\* reconciliation.  The update commit of a call whose claims carry a
\* non-empty name stores that name whenever the display name the call read
\* was a different one (such as one set by an onboarding merge), and
\* whenever no other request has committed since the call's lookup.
ClaimsNameOverwrites ==
    [][ \A c \in Calls :
          ( /\ CommitsUpdate(c)
            /\ Truthy(display_name(call[c].token_payload))
            /\ \/ call[c].loaded.display_name # display_name(call[c].token_payload)
               \/ commits = call[c].seen )
          => StoredRow(store', c).display_name = display_name(call[c].token_payload)
      ]_vars

\* a signup has stored the display name of its body with its merge commit,
\* and a later login whose claims carry another name has read that display
\* name and replaced it by the claims name
ClaimsNameOverwritesWitness ==
    \E c, d \in Calls :
        /\ call[d].kind = "signup" /\ call[d].pc = "done" /\ call[d].writes = 2
        /\ call[d].response.display_name = "Ada L."
        /\ call[c].kind = "login" /\ call[c].pc = "refresh" /\ call[c].path = "found"
        /\ call[c].loaded.display_name = "Ada L."
        /\ display_name(call[c].token_payload) = "Ada"
        /\ StoredRow(store, c).display_name = "Ada"

\* the merge commit of signup request c fails in this step
MergeCommitFails(c) ==
    /\ call[c].pc = "merge_commit"
    /\ call'[c].pc = "done" /\ call'[c].outcome = "raised"

\* C20: signup is not atomic across its two passes.  No stored row ever
\* references a consent version that does not exist; when the merge commit
\* of a signup fails, the request fails with the store's error and without
\* a response, that step stores nothing (the row keeps the display name,
\* privacy level and consent version it had), and the row the
\* reconciliation of the same request returned is still stored, its commit
\* still the only one the request made.
MergeFailureKeepsReconciliation ==
    /\ [](\A r \in store : ~Truthy(r.consent_version_id)
                              \/ r.consent_version_id \in consentversion)
    /\ [][ \A c \in Calls :
             MergeCommitFails(c)
             => /\ call'[c].exc = "IntegrityError"
                /\ call'[c].response = NoResponse
                /\ store' = store /\ commits' = commits
                /\ \E r \in store' : r.id = call[c].loaded.id
                /\ call[c].path \in {"created", "found"} => call'[c].writes = 1
                /\ call[c].path = "raced" => call'[c].writes = 0
         ]_vars

\* a signup that created its row and supplied a display name and a consent
\* version that does not exist has failed; the row it created is stored
\* with the claims' display name and no consent version
MergeFailureKeepsReconciliationWitness ==
    \E c \in Calls : \E r \in store :
        /\ call[c].kind = "signup" /\ call[c].pc = "done"
        /\ call[c].outcome = "raised" /\ call[c].exc = "IntegrityError"
        /\ call[c].path = "created" /\ call[c].writes = 1
        /\ r.firebase_uid = uid_of(c)
        /\ r.display_name = "Ada" /\ r.consent_version_id = None
        /\ commits = 1

====
